---- MODULE Spec2Model ----
(***************************************************************************)
(* State-machine model of the automation scripts of sabkans/mmks:          *)
(*   scripts/sonic.js  (wS staking cycles: supply -> delay -> withdraw)     *)
(*   scripts/os.js     (multi-wallet batchSwap iterations)                  *)
(*   unnamed/part_000  (wrap -> swap on Beets cycles, timed or continuous;  *)
(*                      "beets" below; line 68 lacks a closing parenthesis  *)
(*                      and is read as formatUnits(amountIn, decimals))     *)
(* and of their two Retry Wrappers (withRetry), which are also driven on    *)
(* their own with arbitrary attempt bounds and an opaque operation.         *)
(*                                                                         *)
(* A program position (pc) is either an await point ("await_...": the      *)
(* script is suspended on a remote call, a timer or a prompt) or a control *)
(* junction between two await points.  Amounts are counted in units of     *)
(* 0.0001 token (the 4 decimals getRandomAmount keeps).                    *)
(***************************************************************************)
EXTENDS Integers, Sequences, FiniteSets, TLC

\* ---------------------------------------------------------------- bounds
MaxCycles == 2          \* largest cycle / iteration count typed at the prompt
MaxBound == 3           \* largest attempt bound handed to a withRetry on its own
MaxKeys == 2            \* longest PRIVATE_KEYS list
MaxSwapAmount == 2      \* largest swap amount typed at the os.js prompt
RandDen == 2            \* Math.random() is one of 0/RandDen .. (RandDen-1)/RandDen
MaxOrphans == 2         \* most requests left in flight by a rejected Promise.all
RandFine == 120001      \* the grid of Math.random() values the draw functions are tried on
MaxTicks == 2           \* most executeSwapCycle invocations started by the timer

\* ------------------------------------------------------ program constants
SONIC_MAX_RETRIES == 3
OS_MAX_RETRIES == 3
MIN_STAKE_AMOUNT == 100
MAX_STAKE_AMOUNT == 500
minApproval == 100000
minEthRequired == 100
MaxUint256 == 1000000
minDelay == 60000
maxDelay == 180000
BEETS_MIN_WRAP == 100
BEETS_MAX_WRAP == 500
BEETS_MIN_SWAP == 50
BEETS_MAX_SWAP == 200

\* a JavaScript number is a record: NaN, or the finite value v
NaN == [nan |-> TRUE, v |-> 0]
Num(n) == [nan |-> FALSE, v |-> n]

\* JavaScript comparison of numbers: any comparison with NaN is false
LessEq(x, y) == ~x.nan /\ ~y.nan /\ x.v <= y.v
Less(x, y) == ~x.nan /\ ~y.nan /\ x.v < y.v

VARIABLES
  script,     \* which program runs: "sonic", "os", or a withRetry driven alone
  pc,         \* position of the single thread of control
  exitCode,   \* -1 while the process runs, else the process exit code
  inflight,   \* remote requests issued and not yet settled
  pending,    \* unsettled members of the Promise.all currently awaited
  allowance,  \* ledger: allowance of the spender for the wallet's wS
  input,      \* what the environment supplies: keys and prompt answers
  orch,       \* orchestrator locals: n (cycle count), i (cycle), w (wallet)
  wr,         \* the active withRetry call: locals and call history
  att,        \* locals and history of the current operation attempt
  h,          \* history of the run: cycles started, failed, reported
  netUsed,    \* history: some remote request has been issued
  cyc         \* the executeSwapCycle invocations started: position and amount

vars == <<script, pc, exitCode, inflight, pending, allowance, input, orch, wr, att, h,
          netUsed, cyc>>

\* ------------------------------------------------------------ pure helpers

\* parseInt / parseFloat of a prompt answer; a blank or non-numeric text is NaN
parseInt(a) == IF a.txt = "num" THEN [nan |-> FALSE, v |-> a.val] ELSE NaN

\* JavaScript `x || d`: NaN and 0 are falsy
OrDefault(x, d) == IF x.nan \/ x.v = 0 THEN d ELSE x

\* sonic.js getRandomAmount with Math.random() = k / den: the product, the
\* sum, then toFixed(4), which rounds to the nearest unit
sonic_randomAmount_wide(k, den) ==
  MIN_STAKE_AMOUNT +
    ((2 * k * (MAX_STAKE_AMOUNT - MIN_STAKE_AMOUNT + 1) + den) \div (2 * den))
sonic_randomAmount(k, den) ==
  MIN_STAKE_AMOUNT +
    ((2 * k * (MAX_STAKE_AMOUNT - MIN_STAKE_AMOUNT) + den) \div (2 * den))

\* sonic.js getRandomAmount with Math.random() = k / RandDen
sonic_getRandomAmount(k) == sonic_randomAmount(k, RandDen)

\* Math.floor(k / den * n), as k + floor(k * (n - den) / den) to stay within
\* 32-bit integers
FloorOf(k, den, n) == k + ((k * (n - den)) \div den)

\* sonic.js getRandomDelay with Math.random() = k / den, in ms
sonic_getRandomDelay(k, den) == FloorOf(k, den, maxDelay - minDelay + 1) + minDelay

\* sonic.js withRetry: the test that ends the retrying after a failure
sonic_exhausted_atOnce(attempts, maxRetries) == attempts >= 1
sonic_exhausted_off(attempts, maxRetries) == attempts > maxRetries
sonic_exhausted(attempts, maxRetries) == attempts >= maxRetries

\* sonic.js withRetry: the loop condition
sonic_loopCond(attempts, maxRetries) == attempts < maxRetries

\* sonic.js withRetry: exponential backoff in ms
sonic_delayTime(attempts) == (2 ^ attempts) * 1000

\* sonic.js checkApproval: is an approve transaction needed
sonic_needsApproval(allow) == allow < minApproval

\* ------------------------------------------------------------ value sets
Answers == {[txt |-> "blank", val |-> 0], [txt |-> "junk", val |-> 0]}
             \cup {[txt |-> "num", val |-> v] : v \in -1..MaxCycles}
NoAnswer == [txt |-> "blank", val |-> 0]
AllowanceValues == {0, MAX_STAKE_AMOUNT, minApproval}
WsBalances == {0, MAX_STAKE_AMOUNT}
EthBalances == {0, minEthRequired}
ASonWsBalances == {0, MIN_STAKE_AMOUNT}
ReserveData == {0, 1}
HarnessBounds == -1..MaxBound
IterationAnswers == {[txt |-> "junk", val |-> 0]}
                      \cup {[txt |-> "num", val |-> v] : v \in -1..MaxCycles}
AmountAnswers == {[txt |-> "blank", val |-> 0], [txt |-> "junk", val |-> 0]}
                   \cup {[txt |-> "num", val |-> v] : v \in -1..MaxSwapAmount}
KeyLists == UNION {[1..len -> BOOLEAN] : len \in 0..MaxKeys}
OsBalances == {0, MaxSwapAmount}
NoOrch == [n |-> Num(0), i |-> 0, w |-> 0, q |-> 0, amount |-> Num(0), wallets |-> <<>>,
           count |-> 0, timed |-> FALSE]
HoursAnswers == {[txt |-> "blank", val |-> 0], [txt |-> "junk", val |-> 0],
                 [txt |-> "num", val |-> 0], [txt |-> "num", val |-> 1]}
NoInput == [keyValid |-> TRUE, answer |-> NoAnswer, keys |-> <<>>,
            iterations |-> NoAnswer, interval |-> NoAnswer, amount |-> NoAnswer,
            hops |-> NoAnswer, hours |-> NoAnswer]

NoWr == [op |-> "none", caller |-> "none", attempts |-> 0, maxRetries |-> 0, retries |-> 0,
         calls |-> 0, fails |-> 0, outcome |-> "none", result |-> 0,
         err |-> <<>>, thrown |-> <<>>, delay |-> 0]
NoAtt == [stakeAmount |-> 0, amountInWei |-> 0, wsBalance |-> 0, ethBalance |-> 0, aBalance |-> 0,
          allowanceRead |-> -1, reserveData |-> -1, approveSent |-> FALSE, txSent |-> FALSE,
          approveStatus |-> -1, status |-> -1, cause |-> "none", reported |-> FALSE]
NoH == [cycleLog |-> <<>>, failedCycles |-> {}, okCycles |-> {},
        summary |-> FALSE, needlessApprove |-> FALSE]

\* ------------------------------------------------------------------ Init
Init ==
  /\ script \in {"sonic", "wr_sonic", "os", "wr_os", "beets", "rand"}
  /\ cyc = <<>>
  /\ exitCode = -1
  /\ inflight = 0
  /\ pending = 0
  /\ att = NoAtt
  /\ h = NoH
  /\ netUsed = FALSE
  /\ orch = NoOrch
  /\ \/ /\ script = "sonic"
        /\ pc = "load"
        /\ allowance \in AllowanceValues
        /\ \E kv \in BOOLEAN, a \in Answers :
             input = [NoInput EXCEPT !.keyValid = kv, !.answer = a]
        /\ wr = NoWr
     \/ /\ script = "wr_sonic"
        /\ pc = "wr_test"
        /\ allowance = 0
        /\ input = NoInput
        /\ \E b \in HarnessBounds :
             wr = [NoWr EXCEPT !.op = "opaque", !.caller = "alone", !.maxRetries = b,
                               !.outcome = "running"]
     \/ /\ script = "os"
        /\ pc = "load"
        /\ allowance \in OsBalances
        /\ \E ks \in KeyLists, it \in IterationAnswers, am \in AmountAnswers :
             input = [NoInput EXCEPT !.keys = ks, !.iterations = it, !.amount = am]
        /\ wr = NoWr
     \/ /\ script = "beets"
        /\ pc = "load"
        /\ allowance \in {0, BEETS_MAX_SWAP}
        /\ \E kv \in BOOLEAN, a \in Answers, hr \in HoursAnswers :
             input = [NoInput EXCEPT !.keyValid = kv, !.answer = a, !.hours = hr]
        /\ wr = NoWr
     \/ /\ script = "rand"
        /\ pc = "rand_draw"
        /\ allowance = 0
        /\ input = NoInput
        /\ wr = NoWr
     \/ /\ script = "wr_os"
        /\ pc = "os_wr_call"
        /\ allowance = 0
        /\ input = NoInput
        /\ \E b \in HarnessBounds :
             wr = [NoWr EXCEPT !.op = "opaque", !.caller = "alone", !.maxRetries = b,
                               !.retries = b, !.outcome = "running"]

\* --------------------------------------------------------- sonic.js: main

\* module load (lines 29-56, 305): the Wallet constructor throws on a missing
\* or malformed PRIVATE_KEY, which is an uncaught exception; else main() runs
\* up to the prompt
sonic_load ==
  /\ script = "sonic" /\ pc = "load"
  /\ IF input.keyValid
       THEN /\ pc' = "await_prompt" /\ UNCHANGED exitCode
       ELSE /\ pc' = "exit" /\ exitCode' = 1
  /\ UNCHANGED <<script, cyc, inflight, pending, allowance, input, orch, wr, att, h, netUsed>>

\* main, the prompt callback: cycleCount = parseInt(answer) || 1; i = 1
sonic_main_prompt ==
  /\ script = "sonic" /\ pc = "await_prompt"
  /\ orch' = [orch EXCEPT !.n = OrDefault(parseInt(input.answer), Num(1)), !.i = 1]
  /\ pc' = "for_test"
  /\ UNCHANGED <<script, cyc, exitCode, inflight, pending, allowance, input, wr, att, h, netUsed>>

\* main, the for loop test; a cycle starts with supplyWS(i) = withRetry(...)
sonic_main_for ==
  /\ script = "sonic" /\ pc = "for_test"
  /\ IF LessEq(Num(orch.i), orch.n)
       THEN /\ h' = [h EXCEPT !.cycleLog = Append(@, orch.i)]
            /\ wr' = [NoWr EXCEPT !.op = "supply", !.caller = "main",
                                  !.maxRetries = SONIC_MAX_RETRIES, !.outcome = "running"]
            /\ att' = NoAtt
            /\ pc' = "wr_test"
       ELSE /\ pc' = "summary"
            /\ UNCHANGED <<h, wr, att>>
  /\ UNCHANGED <<script, cyc, exitCode, inflight, pending, allowance, input, orch, netUsed>>

\* ---------------------------------------------------- sonic.js: withRetry

\* a remote request settles and k new ones are issued
SettleIssue(k) ==
  /\ inflight' = inflight - 1 + k
  /\ netUsed' = (netUsed \/ k > 0)

\* the operation throws: control reaches the catch clause of withRetry
sonic_opThrows(cause, a) ==
  /\ pc' = "wr_catch"
  /\ att' = [a EXCEPT !.cause = cause]
  /\ wr' = [wr EXCEPT !.fails = @ + 1, !.err = <<cause, wr.calls>>]
  /\ pending' = 0

\* withRetry, the while test: either invoke the operation once more (up to its
\* first await) or fall out of the loop, which returns undefined
sonic_withRetry_loop ==
  /\ script \in {"sonic", "wr_sonic"} /\ pc = "wr_test"
  /\ IF sonic_loopCond(wr.attempts, wr.maxRetries)
       THEN /\ wr' = [wr EXCEPT !.calls = @ + 1]
            /\ att' = NoAtt
            /\ CASE wr.op = "supply" ->
                      /\ pc' = "await_allowance" /\ pending' = 0
                      /\ inflight' = inflight + 1 /\ netUsed' = TRUE
                 [] wr.op = "withdraw" ->
                      /\ pc' = "await_balances" /\ pending' = 3
                      /\ inflight' = inflight + 3 /\ netUsed' = TRUE
                 [] OTHER ->
                      /\ pc' = "await_op" /\ pending' = 0
                      /\ UNCHANGED <<inflight, netUsed>>
       ELSE /\ wr' = [wr EXCEPT !.outcome = "undefined"]
            /\ pc' = "wr_returned"
            /\ UNCHANGED <<att, pending, inflight, netUsed>>
  /\ UNCHANGED <<script, cyc, exitCode, allowance, input, orch, h>>

\* `throw error` in the catch clause: what leaves withRetry for a caught error
sonic_thrown_wrapped(error) == <<"RetryError", error[2]>>
sonic_thrown(error) == error

\* withRetry, the catch clause: attempts++, rethrow when exhausted, else back off
sonic_withRetry_catch ==
  /\ script \in {"sonic", "wr_sonic"} /\ pc = "wr_catch"
  /\ LET a == wr.attempts + 1 IN
       IF sonic_exhausted(a, wr.maxRetries)
         THEN /\ wr' = [wr EXCEPT !.attempts = a, !.outcome = "thrown",
                                   !.thrown = sonic_thrown(wr.err)]
              /\ pc' = "wr_threw"
         ELSE /\ wr' = [wr EXCEPT !.attempts = a, !.delay = sonic_delayTime(a)]
              /\ pc' = "await_retry_delay"
  /\ UNCHANGED <<script, cyc, exitCode, inflight, pending, allowance, input, orch, att, h,
                 netUsed>>

\* withRetry, the backoff timer fires
sonic_withRetry_delay ==
  /\ script \in {"sonic", "wr_sonic"} /\ pc = "await_retry_delay"
  /\ pc' = "wr_test"
  /\ UNCHANGED <<script, cyc, exitCode, inflight, pending, allowance, input, orch, wr, att, h,
                 netUsed>>

\* an opaque operation handed to withRetry settles, with success or failure
sonic_operation ==
  /\ script = "wr_sonic" /\ pc = "await_op"
  /\ \/ /\ wr' = [wr EXCEPT !.outcome = "returned", !.result = wr.calls]
        /\ pc' = "wr_returned"
        /\ UNCHANGED <<att, pending>>
     \/ sonic_opThrows("opaque", att)
  /\ UNCHANGED <<script, cyc, exitCode, inflight, allowance, input, orch, h, netUsed>>

\* ------------------------------------- sonic.js: the steps of an operation

\* requests the thread of control is suspended on
Awaited ==
  IF \/ pc \in {"await_allowance", "await_approve", "await_approve_wait", "await_reserve",
                "await_feeData", "await_submit", "await_wait",
                "os_await_balance", "os_await_allowance", "os_await_approve_wait",
                "os_await_swap_wait"}
     \/ pc = "os_await_fn" /\ wr.op # "opaque"
    THEN 1
    ELSE pending

\* checkApproval, after wsToken.allowance: approve when below minApproval,
\* else return to supplyWS, which calls checkReserveStatus
sonic_checkApproval ==
  /\ script = "sonic" /\ pc = "await_allowance"
  /\ \/ /\ sonic_needsApproval(allowance)
        /\ att' = [att EXCEPT !.allowanceRead = allowance, !.approveSent = TRUE]
        /\ pc' = "await_approve"
        /\ SettleIssue(1)
        /\ UNCHANGED <<wr, pending>>
     \/ /\ ~sonic_needsApproval(allowance)
        /\ att' = [att EXCEPT !.allowanceRead = allowance]
        /\ pc' = "await_reserve"
        /\ SettleIssue(1)
        /\ UNCHANGED <<wr, pending>>
     \/ /\ sonic_opThrows("allowance_query", att)
        /\ SettleIssue(0)
  /\ UNCHANGED <<script, cyc, exitCode, allowance, input, orch, h>>

\* checkApproval, after wsToken.approve was submitted
sonic_checkApproval_approve ==
  /\ script = "sonic" /\ pc = "await_approve"
  /\ \/ /\ pc' = "await_approve_wait"
        /\ SettleIssue(1)
        /\ UNCHANGED <<wr, att, pending>>
     \/ /\ sonic_opThrows("approve_submit", att)
        /\ SettleIssue(0)
  /\ UNCHANGED <<script, cyc, exitCode, allowance, input, orch, h>>

\* checkApproval, after tx.wait() of the approve: the receipt status is not
\* looked at; then checkReserveStatus issues getReserveData
sonic_checkApproval_wait ==
  /\ script = "sonic" /\ pc = "await_approve_wait"
  /\ \/ /\ \E st \in {0, 1} :
             allowance' = IF st = 1 THEN MaxUint256 ELSE allowance
        /\ pc' = "await_reserve"
        /\ SettleIssue(1)
        /\ UNCHANGED <<wr, att, pending>>
     \/ /\ sonic_opThrows("approve_wait", att)
        /\ SettleIssue(0)
        /\ UNCHANGED allowance
  /\ UNCHANGED <<script, cyc, exitCode, input, orch, h>>

\* checkReserveStatus: isActive = reserveData[0] > 0
sonic_isActive_always(reserveData) == TRUE
sonic_isActive(reserveData) == reserveData > 0

\* checkReserveStatus, after getReserveData; then checkBalances issues its
\* three queries at once (Promise.all)
sonic_checkReserveStatus ==
  /\ script = "sonic" /\ pc = "await_reserve"
  /\ \/ \E rd \in ReserveData :
          IF sonic_isActive(rd)
            THEN /\ pc' = "await_balances"
                 /\ pending' = 3
                 /\ SettleIssue(3)
                 /\ att' = [att EXCEPT !.reserveData = rd]
                 /\ UNCHANGED wr
            ELSE /\ sonic_opThrows("reserve_inactive", [att EXCEPT !.reserveData = rd])
                 /\ SettleIssue(0)
     \/ /\ sonic_opThrows("reserve_query", att)
        /\ SettleIssue(0)
  /\ UNCHANGED <<script, cyc, exitCode, allowance, input, orch, h>>

\* supplyWS: the insufficient-balance precondition
sonic_insufficient_never(wsBalance, stakeAmount) == FALSE
sonic_insufficient(wsBalance, stakeAmount) == wsBalance < stakeAmount

\* supplyWS after checkBalances returned: draw the stake amount, check the
\* two balances, then getCurrentGasFees issues getFeeData
sonic_supplyWS_checks(ws, eth, a) ==
  \E k \in 0..(RandDen - 1) :
    LET stake == sonic_getRandomAmount(k)
        loc == [att EXCEPT !.wsBalance = ws, !.ethBalance = eth, !.aBalance = a,
                           !.stakeAmount = stake]
    IN  IF sonic_insufficient(ws, stake)
          THEN sonic_opThrows("insufficient_ws", loc) /\ SettleIssue(0)
          ELSE IF eth < minEthRequired
            THEN sonic_opThrows("insufficient_eth", loc) /\ SettleIssue(0)
            ELSE /\ att' = loc /\ pc' = "await_feeData" /\ pending' = 0
                 /\ SettleIssue(1) /\ UNCHANGED wr

\* withdrawWS after checkBalances returned
sonic_withdrawWS_checks(ws, eth, a) ==
  LET loc == [att EXCEPT !.wsBalance = ws, !.ethBalance = eth, !.aBalance = a]
  IN  IF a <= 0
        THEN sonic_opThrows("nothing_to_unstake", loc) /\ SettleIssue(0)
        ELSE /\ att' = loc /\ pc' = "await_feeData" /\ pending' = 0
             /\ SettleIssue(1) /\ UNCHANGED wr

\* checkBalances: one of the three queries settles; Promise.all resolves with
\* the last success and rejects with the first failure, whatever is in flight
sonic_checkBalances ==
  /\ script = "sonic" /\ pc = "await_balances"
  /\ \/ /\ pending > 1
        /\ pending' = pending - 1
        /\ SettleIssue(0)
        /\ UNCHANGED <<pc, wr, att>>
     \/ /\ pending = 1
        /\ \E ws \in WsBalances, eth \in EthBalances, a \in ASonWsBalances :
             IF wr.op = "supply"
               THEN sonic_supplyWS_checks(ws, eth, a)
               ELSE sonic_withdrawWS_checks(ws, eth, a)
     \/ /\ inflight - Awaited + pending - 1 <= MaxOrphans
        /\ sonic_opThrows("balance_query", att)
        /\ SettleIssue(0)
  /\ UNCHANGED <<script, cyc, exitCode, allowance, input, orch, h>>

\* a query that a rejected Promise.all left in flight settles, unobserved
sonic_orphanSettles ==
  /\ script = "sonic" /\ exitCode = -1
  /\ inflight > Awaited
  /\ inflight' = inflight - 1
  /\ UNCHANGED <<script, cyc, pc, exitCode, pending, allowance, input, orch, wr, att, h,
                 netUsed>>

\* getCurrentGasFees, after getFeeData: a failure is caught and defaults are
\* used; then the deposit / withdraw transaction is submitted
sonic_getCurrentGasFees ==
  /\ script = "sonic" /\ pc = "await_feeData"
  /\ att' = [att EXCEPT !.txSent = TRUE]
  /\ pc' = "await_submit"
  /\ SettleIssue(1)
  /\ UNCHANGED <<script, cyc, exitCode, pending, allowance, input, orch, wr, h>>

\* after lendingPool.deposit / lendingPool.withdraw was submitted
sonic_submit ==
  /\ script = "sonic" /\ pc = "await_submit"
  /\ \/ /\ pc' = "await_wait"
        /\ SettleIssue(1)
        /\ UNCHANGED <<wr, att, pending>>
     \/ /\ sonic_opThrows("submit_throw", att)
        /\ SettleIssue(0)
  /\ UNCHANGED <<script, cyc, exitCode, allowance, input, orch, h>>

\* does the receipt make the operation throw "Transaction reverted"
sonic_isReverted_not(status) == FALSE
sonic_isReverted(status) == status = 0

\* after tx.wait() of the deposit / withdraw: a receipt (status 1 or 0) or a throw
sonic_receipt ==
  /\ script = "sonic" /\ pc = "await_wait"
  /\ \/ \E st \in {0, 1} :
          IF sonic_isReverted(st)
            THEN sonic_opThrows("reverted", [att EXCEPT !.status = st]) /\ SettleIssue(0)
            ELSE /\ att' = [att EXCEPT !.status = st, !.reported = TRUE]
                 /\ wr' = [wr EXCEPT !.outcome = "returned", !.result = wr.calls]
                 /\ pc' = "wr_returned"
                 /\ SettleIssue(0)
                 /\ UNCHANGED pending
     \/ /\ sonic_opThrows("wait_throw", att)
        /\ SettleIssue(0)
  /\ UNCHANGED <<script, cyc, exitCode, allowance, input, orch, h>>

\* ------------------------------------------- sonic.js: main, rest of a cycle

\* supplyWS returned: destructuring undefined throws, else the inter-step delay
sonic_main_afterSupply_noDelay ==
  /\ script = "sonic" /\ pc = "wr_returned" /\ wr.op = "supply"
  /\ wr' = [NoWr EXCEPT !.op = "withdraw", !.caller = "main",
                        !.maxRetries = SONIC_MAX_RETRIES, !.outcome = "running"]
  /\ att' = NoAtt
  /\ pc' = "wr_test"
  /\ UNCHANGED <<script, cyc, exitCode, inflight, pending, allowance, input, orch, h, netUsed>>
sonic_main_afterSupply ==
  /\ script = "sonic" /\ pc = "wr_returned" /\ wr.op = "supply"
  /\ pc' = IF wr.outcome = "undefined" THEN "main_catch" ELSE "await_step_delay"
  /\ UNCHANGED <<script, cyc, exitCode, inflight, pending, allowance, input, orch, wr, att, h,
                 netUsed>>

\* the inter-step delay elapsed: withdrawWS(i) = withRetry(...)
sonic_main_stepDelay ==
  /\ script = "sonic" /\ pc = "await_step_delay"
  /\ wr' = [NoWr EXCEPT !.op = "withdraw", !.caller = "main",
                        !.maxRetries = SONIC_MAX_RETRIES, !.outcome = "running"]
  /\ att' = NoAtt
  /\ pc' = "wr_test"
  /\ UNCHANGED <<script, cyc, exitCode, inflight, pending, allowance, input, orch, h, netUsed>>

\* withdrawWS returned: "Cycle i completed successfully"
sonic_main_afterWithdraw ==
  /\ script = "sonic" /\ pc = "wr_returned" /\ wr.op = "withdraw"
  /\ h' = [h EXCEPT !.okCycles = @ \cup {orch.i}]
  /\ pc' = "after_cycle"
  /\ UNCHANGED <<script, cyc, exitCode, inflight, pending, allowance, input, orch, wr, att,
                 netUsed>>

\* the catch clause of the cycle: "Cycle i failed"
sonic_main_catch_abort ==
  /\ script = "sonic" /\ pc \in {"wr_threw", "main_catch"}
  /\ h' = [h EXCEPT !.failedCycles = @ \cup {orch.i}]
  /\ pc' = "summary"
  /\ UNCHANGED <<script, cyc, exitCode, inflight, pending, allowance, input, orch, wr, att,
                 netUsed>>
sonic_main_catch ==
  /\ script = "sonic" /\ pc \in {"wr_threw", "main_catch"}
  /\ h' = [h EXCEPT !.failedCycles = @ \cup {orch.i}]
  /\ pc' = "after_cycle"
  /\ UNCHANGED <<script, cyc, exitCode, inflight, pending, allowance, input, orch, wr, att,
                 netUsed>>

\* after the try/catch: the inter-cycle delay unless this was the last cycle
sonic_main_afterCycle ==
  /\ script = "sonic" /\ pc = "after_cycle"
  /\ IF Less(Num(orch.i), orch.n)
       THEN pc' = "await_cycle_delay" /\ UNCHANGED orch
       ELSE pc' = "for_test" /\ orch' = [orch EXCEPT !.i = @ + 1]
  /\ UNCHANGED <<script, cyc, exitCode, inflight, pending, allowance, input, wr, att, h,
                 netUsed>>

\* the inter-cycle delay elapsed: i++
sonic_main_cycleDelay ==
  /\ script = "sonic" /\ pc = "await_cycle_delay"
  /\ pc' = "for_test"
  /\ orch' = [orch EXCEPT !.i = @ + 1]
  /\ UNCHANGED <<script, cyc, exitCode, inflight, pending, allowance, input, wr, att, h,
                 netUsed>>

\* after the loop: "All N cycles completed!", then finally: process.exit(0)
sonic_main_finish ==
  /\ script = "sonic" /\ pc = "summary"
  /\ h' = [h EXCEPT !.summary = TRUE]
  /\ exitCode' = 0
  /\ pc' = "exit"
  /\ UNCHANGED <<script, cyc, inflight, pending, allowance, input, orch, wr, att, netUsed>>

sonic_Next ==
  \/ sonic_load \/ sonic_main_prompt \/ sonic_main_for
  \/ sonic_withRetry_loop \/ sonic_withRetry_catch \/ sonic_withRetry_delay
  \/ sonic_operation
  \/ sonic_checkApproval \/ sonic_checkApproval_approve \/ sonic_checkApproval_wait
  \/ sonic_checkReserveStatus \/ sonic_checkBalances \/ sonic_orphanSettles
  \/ sonic_getCurrentGasFees \/ sonic_submit \/ sonic_receipt
  \/ sonic_main_afterSupply \/ sonic_main_stepDelay \/ sonic_main_afterWithdraw
  \/ sonic_main_catch \/ sonic_main_afterCycle \/ sonic_main_cycleDelay
  \/ sonic_main_finish

\* ------------------------------------------------------ os.js: withRetry

\* withRetry: may the failed call be repeated
os_retriesLeft_strict(retries) == retries > 1
os_retriesLeft(retries) == retries > 0

\* the frame of a call withRetry(fn) with the default bound
os_frame(op) ==
  [NoWr EXCEPT !.op = op, !.caller = "performSwap", !.maxRetries = OS_MAX_RETRIES,
               !.retries = OS_MAX_RETRIES, !.outcome = "running"]

\* withRetry is entered (first call or recursive call): fn() is invoked at once
os_withRetry ==
  /\ script \in {"os", "wr_os"} /\ pc = "os_wr_call"
  /\ wr' = [wr EXCEPT !.calls = @ + 1]
  /\ pc' = "os_await_fn"
  /\ IF wr.op = "opaque"
       THEN UNCHANGED <<inflight, netUsed>>
       ELSE inflight' = inflight + 1 /\ netUsed' = TRUE
  /\ UNCHANGED <<script, cyc, exitCode, pending, allowance, input, orch, att, h>>

\* fn() settles: its value is returned through every level of the recursion,
\* its failure reaches the catch clause
os_withRetry_fn ==
  /\ script \in {"os", "wr_os"} /\ pc = "os_await_fn"
  /\ \/ /\ wr' = [wr EXCEPT !.outcome = "returned", !.result = wr.calls]
        /\ pc' = "os_wr_returned"
     \/ /\ wr' = [wr EXCEPT !.fails = @ + 1, !.err = <<wr.op, wr.calls>>]
        /\ pc' = "os_wr_catch"
  /\ IF wr.op = "opaque" THEN UNCHANGED inflight ELSE inflight' = inflight - 1
  /\ UNCHANGED <<script, cyc, exitCode, pending, allowance, input, orch, att, h, netUsed>>

\* `throw error` in the catch clause; the callers up the recursion return the
\* rejected promise of the inner call as it is
os_thrown(error) == error

\* the catch clause: wait and recurse while retries > 0, else rethrow
os_withRetry_catch ==
  /\ script \in {"os", "wr_os"} /\ pc = "os_wr_catch"
  /\ IF os_retriesLeft(wr.retries)
       THEN /\ pc' = "os_await_retry_delay"
            /\ UNCHANGED wr
       ELSE /\ pc' = "os_wr_threw"
            /\ wr' = [wr EXCEPT !.outcome = "thrown", !.thrown = os_thrown(wr.err)]
  /\ UNCHANGED <<script, cyc, exitCode, inflight, pending, allowance, input, orch, att, h,
                 netUsed>>

\* the retry timer fires: withRetry(fn, retries - 1, delay)
os_withRetry_delay ==
  /\ script \in {"os", "wr_os"} /\ pc = "os_await_retry_delay"
  /\ wr' = [wr EXCEPT !.retries = @ - 1]
  /\ pc' = "os_wr_call"
  /\ UNCHANGED <<script, cyc, exitCode, inflight, pending, allowance, input, orch, att, h,
                 netUsed>>

\* ----------------------------------------------------------- os.js: main

\* Math.max of two JavaScript numbers
MathMax(x, y) == IF x.nan \/ y.nan THEN NaN ELSE IF x.v >= y.v THEN x ELSE y

\* parseInt(answer || d): a blank answer is falsy
os_parseOr(a, d) == IF a.txt = "blank" THEN Num(d) ELSE parseInt(a)

\* the wallets built from PRIVATE_KEYS: the positions of the valid keys, in order
RECURSIVE os_wallets(_, _)
os_wallets(keys, k) ==
  IF k > Len(keys) THEN <<>>
  ELSE (IF keys[k] THEN <<k>> ELSE <<>>) \o os_wallets(keys, k + 1)

\* main: "No valid wallets initialized"
os_noWallets_never(wallets) == FALSE
os_noWallets(wallets) == Len(wallets) = 0

\* main up to the first prompt: no key at all is fatal
os_main ==
  /\ script = "os" /\ pc = "load"
  /\ IF Len(input.keys) = 0
       THEN pc' = "fatal" /\ UNCHANGED orch
       ELSE pc' = "await_question" /\ orch' = [orch EXCEPT !.q = 1]
  /\ UNCHANGED <<script, cyc, exitCode, inflight, pending, allowance, input, wr, att, h,
                 netUsed>>

\* an answer arrives; after the fourth the wallets are built and the wallet
\* loop is entered, unless no key yields a wallet
os_askQuestion ==
  /\ script = "os" /\ pc = "await_question"
  /\ IF orch.q < 4
       THEN pc' = "await_question" /\ orch' = [orch EXCEPT !.q = @ + 1]
       ELSE LET ws == os_wallets(input.keys, 1) IN
            /\ orch' = [orch EXCEPT
                          !.n = MathMax(os_parseOr(input.iterations, 5), Num(1)),
                          !.amount = MathMax(os_parseOr(input.amount, 1), Num(0)),
                          !.wallets = ws, !.w = 1]
            /\ pc' = IF os_noWallets(ws) THEN "fatal" ELSE "wallet_test"
  /\ UNCHANGED <<script, cyc, exitCode, inflight, pending, allowance, input, wr, att, h,
                 netUsed>>

\* the catch clause of main: "Fatal error", process.exit(1)
os_main_catch ==
  /\ script = "os" /\ pc = "fatal"
  /\ exitCode' = 1
  /\ pc' = "exit"
  /\ UNCHANGED <<script, cyc, inflight, pending, allowance, input, orch, wr, att, h, netUsed>>

\* the wallet loop: processWallet of the next wallet starts with the two
\* getTokenDecimals queries (Promise.all); after the last wallet main returns
os_main_for ==
  /\ script = "os" /\ pc = "wallet_test"
  /\ IF orch.w <= Len(orch.wallets)
       THEN /\ pc' = "os_await_decimals"
            /\ pending' = 2
            /\ inflight' = inflight + 2
            /\ netUsed' = TRUE
            /\ UNCHANGED <<h, exitCode>>
       ELSE /\ pc' = "exit"
            /\ exitCode' = 0
            /\ h' = [h EXCEPT !.summary = TRUE]
            /\ UNCHANGED <<pending, inflight, netUsed>>
  /\ UNCHANGED <<script, cyc, allowance, input, orch, wr, att>>

\* getTokenDecimals: a decimals() query settles; a failure is caught and the
\* configured value is used, so the Promise.all never rejects
os_getTokenDecimals ==
  /\ script = "os" /\ pc = "os_await_decimals"
  /\ pending' = pending - 1
  /\ inflight' = inflight - 1
  /\ IF pending = 1
       THEN pc' = "os_for_test" /\ orch' = [orch EXCEPT !.i = 1]
       ELSE UNCHANGED <<pc, orch>>
  /\ UNCHANGED <<script, cyc, exitCode, allowance, input, wr, att, h, netUsed>>

\* processWallet, the for test: an iteration starts performSwap, which throws
\* at once on an unparsable amount and else queries the balance
os_processWallet_for ==
  /\ script = "os" /\ pc = "os_for_test"
  /\ IF LessEq(Num(orch.i), orch.n)
       THEN /\ h' = [h EXCEPT !.cycleLog = Append(@, <<orch.wallets[orch.w], orch.i>>)]
            /\ IF orch.amount.nan
                 THEN /\ pc' = "os_catch"
                      /\ att' = [NoAtt EXCEPT !.cause = "parseUnits"]
                      /\ UNCHANGED <<inflight, netUsed>>
                 ELSE /\ pc' = "os_await_balance"
                      /\ att' = [NoAtt EXCEPT !.amountInWei = orch.amount.v]
                      /\ inflight' = inflight + 1
                      /\ netUsed' = TRUE
            /\ wr' = NoWr
            /\ UNCHANGED orch
       ELSE /\ pc' = "wallet_test"
            /\ orch' = [orch EXCEPT !.w = @ + 1]
            /\ UNCHANGED <<h, att, wr, inflight, netUsed>>
  /\ UNCHANGED <<script, cyc, exitCode, pending, allowance, input>>

\* performSwap, after wsToken.balanceOf
os_performSwap_balance ==
  /\ script = "os" /\ pc = "os_await_balance"
  /\ \/ \E b \in OsBalances :
          IF b < att.amountInWei
            THEN /\ pc' = "os_catch"
                 /\ att' = [att EXCEPT !.wsBalance = b, !.cause = "insufficient_ws"]
                 /\ SettleIssue(0)
            ELSE /\ pc' = "os_await_allowance"
                 /\ att' = [att EXCEPT !.wsBalance = b]
                 /\ SettleIssue(1)
     \/ /\ pc' = "os_catch"
        /\ att' = [att EXCEPT !.cause = "balance_query"]
        /\ SettleIssue(0)
  /\ UNCHANGED <<script, cyc, exitCode, pending, allowance, input, orch, wr, h>>

\* performSwap: is an approve transaction needed
os_needsApproval(allow, amountInWei) == allow < amountInWei

\* performSwap, after wsToken.allowance: withRetry(approve) when the allowance
\* is short, else withRetry(batchSwap)
os_performSwap_allowance ==
  /\ script = "os" /\ pc = "os_await_allowance"
  /\ \/ /\ os_needsApproval(allowance, att.amountInWei)
        /\ pc' = "os_wr_call"
        /\ wr' = os_frame("approve")
        /\ att' = [att EXCEPT !.allowanceRead = allowance, !.approveSent = TRUE]
     \/ /\ ~os_needsApproval(allowance, att.amountInWei)
        /\ pc' = "os_wr_call"
        /\ wr' = os_frame("swap")
        /\ att' = [att EXCEPT !.allowanceRead = allowance, !.txSent = TRUE]
     \/ /\ pc' = "os_catch"
        /\ att' = [att EXCEPT !.cause = "allowance_query"]
        /\ UNCHANGED wr
  /\ SettleIssue(0)
  /\ UNCHANGED <<script, cyc, exitCode, pending, allowance, input, orch, h>>

\* performSwap, after a withRetry returned the submitted transaction: wait for it
os_performSwap_submitted ==
  /\ script = "os" /\ pc = "os_wr_returned"
  /\ pc' = IF wr.op = "approve" THEN "os_await_approve_wait" ELSE "os_await_swap_wait"
  /\ inflight' = inflight + 1
  /\ UNCHANGED <<script, cyc, exitCode, pending, allowance, input, orch, wr, att, h, netUsed>>

\* performSwap, after approveTx.wait(): the receipt status is not looked at;
\* then withRetry(batchSwap)
os_performSwap_approved ==
  /\ script = "os" /\ pc = "os_await_approve_wait"
  /\ \/ /\ \E st \in {0, 1} :
             /\ allowance' = IF st = 1 THEN att.amountInWei ELSE allowance
             /\ att' = [att EXCEPT !.approveStatus = st, !.txSent = TRUE]
        /\ pc' = "os_wr_call"
        /\ wr' = os_frame("swap")
     \/ /\ pc' = "os_catch"
        /\ att' = [att EXCEPT !.cause = "approve_wait"]
        /\ UNCHANGED <<wr, allowance>>
  /\ SettleIssue(0)
  /\ UNCHANGED <<script, cyc, exitCode, pending, input, orch, h>>

\* does the receipt make performSwap throw "Transaction failed"
os_isReverted(status) == status = 0

\* performSwap, after swapTx.wait(): a receipt (status 1 or 0) or a throw
os_performSwap_receipt ==
  /\ script = "os" /\ pc = "os_await_swap_wait"
  /\ \/ \E st \in {0, 1} :
          IF os_isReverted(st)
            THEN /\ pc' = "os_catch"
                 /\ att' = [att EXCEPT !.status = st, !.cause = "reverted"]
                 /\ UNCHANGED h
            ELSE /\ pc' = "os_after_iter"
                 /\ att' = [att EXCEPT !.status = st, !.reported = TRUE]
                 /\ h' = [h EXCEPT !.okCycles = @ \cup {<<orch.wallets[orch.w], orch.i>>}]
     \/ /\ pc' = "os_catch"
        /\ att' = [att EXCEPT !.cause = "wait_throw"]
        /\ UNCHANGED h
  /\ SettleIssue(0)
  /\ UNCHANGED <<script, cyc, exitCode, pending, allowance, input, orch, wr>>

\* processWallet, the catch clause of an iteration: the error is logged
os_processWallet_catch ==
  /\ script = "os" /\ pc \in {"os_catch", "os_wr_threw"}
  /\ h' = [h EXCEPT !.failedCycles = @ \cup {<<orch.wallets[orch.w], orch.i>>}]
  /\ att' = IF pc = "os_wr_threw" THEN [att EXCEPT !.cause = "submit_throw"] ELSE att
  /\ pc' = "os_after_iter"
  /\ UNCHANGED <<script, cyc, exitCode, inflight, pending, allowance, input, orch, wr, netUsed>>

\* processWallet, after the try/catch: wait the interval unless last iteration
os_processWallet_wait_handover ==
  /\ script = "os" /\ pc = "os_after_iter"
  /\ pc' = "wallet_test"
  /\ orch' = [orch EXCEPT !.w = @ + 1]
  /\ UNCHANGED <<script, cyc, exitCode, inflight, pending, allowance, input, wr, att, h,
                 netUsed>>
os_processWallet_wait ==
  /\ script = "os" /\ pc = "os_after_iter"
  /\ IF Less(Num(orch.i), orch.n)
       THEN pc' = "os_await_interval" /\ UNCHANGED orch
       ELSE pc' = "os_for_test" /\ orch' = [orch EXCEPT !.i = @ + 1]
  /\ UNCHANGED <<script, cyc, exitCode, inflight, pending, allowance, input, wr, att, h,
                 netUsed>>

\* processWallet, the interval elapsed: i++
os_processWallet_interval ==
  /\ script = "os" /\ pc = "os_await_interval"
  /\ pc' = "os_for_test"
  /\ orch' = [orch EXCEPT !.i = @ + 1]
  /\ UNCHANGED <<script, cyc, exitCode, inflight, pending, allowance, input, wr, att, h,
                 netUsed>>

os_Next ==
  \/ os_withRetry \/ os_withRetry_fn \/ os_withRetry_catch \/ os_withRetry_delay
  \/ os_main \/ os_askQuestion \/ os_main_catch \/ os_main_for
  \/ os_getTokenDecimals \/ os_processWallet_for
  \/ os_performSwap_balance \/ os_performSwap_allowance \/ os_performSwap_submitted
  \/ os_performSwap_approved \/ os_performSwap_receipt
  \/ os_processWallet_catch \/ os_processWallet_wait \/ os_processWallet_interval

\* ------------------------------------------------------------- part_000

\* getRandomAmount(min, max) with Math.random() = k / den, toFixed(4) rounding
beets_randomAmount(min, max, k, den) ==
  min + ((2 * k * (max - min) + den) \div (2 * den))

\* getRandomAmount(min, max) with Math.random() = k / RandDen
beets_getRandomAmount(min, max, k) == beets_randomAmount(min, max, k, RandDen)

\* getRandomDelay(minMinutes, maxMinutes) with Math.random() = k / den, in ms
beets_getRandomDelay(minMinutes, maxMinutes, k, den) ==
  LET lo == minMinutes * 60 * 1000
      hi == maxMinutes * 60 * 1000
  IN  FloorOf(k, den, hi - lo + 1) + lo

\* JavaScript x >= y
GreaterEq_never(x, y) == FALSE
GreaterEq(x, y) == ~x.nan /\ ~y.nan /\ x.v >= y.v

\* `answer ? parse(answer) : d`: a blank answer is falsy
beets_parseOr(a, d) == IF a.txt = "blank" THEN Num(d) ELSE parseInt(a)

\* module load: the Wallet constructor throws on a missing or malformed
\* PRIVATE_KEY; else the first question is asked
beets_load ==
  /\ script = "beets" /\ pc = "load"
  /\ IF input.keyValid
       THEN /\ pc' = "await_cycles" /\ UNCHANGED exitCode
       ELSE /\ pc' = "exit" /\ exitCode' = 1
  /\ UNCHANGED <<script, cyc, inflight, pending, allowance, input, orch, wr, att, h,
                 netUsed>>

\* the first answer arrives: the second question is asked
beets_question_cycles ==
  /\ script = "beets" /\ pc = "await_cycles"
  /\ pc' = "await_hours"
  /\ UNCHANGED <<script, cyc, exitCode, inflight, pending, allowance, input, orch, wr,
                 att, h, netUsed>>

\* executeSwapCycle is invoked: it draws the wrap amount and wrapSonic submits
\* the deposit
beets_invoke(cycles) ==
  \E k \in 0..(RandDen - 1) :
    /\ cyc' = Append(cycles, [pc |-> "wrap_submit",
                              amt |-> beets_getRandomAmount(BEETS_MIN_WRAP, BEETS_MAX_WRAP, k)])
    /\ inflight' = inflight + 1
    /\ netUsed' = TRUE

\* "All cycles completed!", rl.close()
beets_allCompleted ==
  /\ h' = [h EXCEPT !.summary = TRUE]
  /\ pc' = "closed"

\* the second answer arrives: timed mode arms the timer; continuous mode
\* enters its loop and runs to the first await of the first cycle
beets_question_hours ==
  /\ script = "beets" /\ pc = "await_hours"
  /\ LET n == beets_parseOr(input.answer, 1)
         intervalHours == beets_parseOr(input.hours, 0)
     IN  IF Less(Num(0), intervalHours)
           THEN /\ orch' = [orch EXCEPT !.n = n, !.count = 0, !.timed = TRUE]
                /\ pc' = "timer"
                /\ UNCHANGED <<cyc, inflight, netUsed, h>>
           ELSE /\ orch' = [orch EXCEPT !.n = n, !.i = 0]
                /\ IF Less(Num(0), n)
                     THEN /\ h' = [h EXCEPT !.cycleLog = Append(@, 1)]
                          /\ pc' = "continuous"
                          /\ beets_invoke(cyc)
                     ELSE /\ beets_allCompleted
                          /\ UNCHANGED <<cyc, inflight, netUsed>>
  /\ UNCHANGED <<script, exitCode, pending, allowance, input, wr, att>>

\* the setInterval callback: stop when count >= cyclesCount, else log the
\* cycle and run executeSwapCycle to its first await
beets_interval ==
  /\ script = "beets" /\ pc = "timer"
  /\ IF GreaterEq(Num(orch.count), orch.n)
       THEN /\ beets_allCompleted
            /\ UNCHANGED <<cyc, inflight, netUsed>>
       ELSE /\ Len(cyc) < MaxTicks
            /\ h' = [h EXCEPT !.cycleLog = Append(@, orch.count + 1)]
            /\ beets_invoke(cyc)
            /\ UNCHANGED pc
  /\ UNCHANGED <<script, exitCode, pending, allowance, input, orch, wr, att>>

\* wrapSonic is over (returned, or its error was logged): executeSwapCycle
\* draws the swap amount and swapOnBeets submits the approve, whatever the
\* allowance is
beets_swapOnBeets(j) ==
  \E k \in 0..(RandDen - 1) :
    LET amountIn == beets_getRandomAmount(BEETS_MIN_SWAP, BEETS_MAX_SWAP, k) IN
    /\ cyc' = [cyc EXCEPT ![j] = [pc |-> "approve_submit", amt |-> amountIn]]
    /\ h' = [h EXCEPT !.needlessApprove = @ \/ allowance >= amountIn]
    /\ UNCHANGED <<inflight, netUsed>>

\* wrapSonic, after wSContract.deposit was submitted: "Wrap successful" is
\* logged and tx.wait() awaited; a failure is caught and logged
beets_wrapSonic(j) ==
  /\ script = "beets" /\ j \in 1..Len(cyc) /\ cyc[j].pc = "wrap_submit"
  /\ \/ /\ cyc' = [cyc EXCEPT ![j].pc = "wrap_wait"]
        /\ UNCHANGED <<h, inflight, netUsed>>
     \/ beets_swapOnBeets(j)
  /\ UNCHANGED <<script, pc, exitCode, pending, allowance, input, orch, wr, att>>

\* wrapSonic, after tx.wait(): the receipt is not looked at, a throw is caught
beets_wrapSonic_wait(j) ==
  /\ script = "beets" /\ j \in 1..Len(cyc) /\ cyc[j].pc = "wrap_wait"
  /\ beets_swapOnBeets(j)
  /\ UNCHANGED <<script, pc, exitCode, pending, allowance, input, orch, wr, att>>

\* swapOnBeets is over (returned, or its error was logged): executeSwapCycle
\* starts its 1-3 minute delay
beets_toDelay(j) ==
  /\ cyc' = [cyc EXCEPT ![j] = [pc |-> "delay", amt |-> 0]]
  /\ inflight' = inflight - 1

\* swapOnBeets, after wSContract.approve was submitted
beets_swapOnBeets_approve(j) ==
  /\ script = "beets" /\ j \in 1..Len(cyc) /\ cyc[j].pc = "approve_submit"
  /\ \/ /\ cyc' = [cyc EXCEPT ![j].pc = "approve_wait"]
        /\ UNCHANGED inflight
     \/ beets_toDelay(j)
  /\ UNCHANGED <<script, pc, exitCode, pending, allowance, input, orch, wr, att, h,
                 netUsed>>

\* swapOnBeets, after approveTx.wait(): the receipt is not looked at; then
\* beetsVault.swap is submitted; a throw ends swapOnBeets
beets_swapOnBeets_approved(j) ==
  /\ script = "beets" /\ j \in 1..Len(cyc) /\ cyc[j].pc = "approve_wait"
  /\ \/ /\ \E st \in {0, 1} :
             allowance' = IF st = 1 THEN cyc[j].amt ELSE allowance
        /\ cyc' = [cyc EXCEPT ![j].pc = "swap_submit"]
        /\ UNCHANGED inflight
     \/ /\ beets_toDelay(j)
        /\ UNCHANGED allowance
  /\ UNCHANGED <<script, pc, exitCode, pending, input, orch, wr, att, h, netUsed>>

\* swapOnBeets, after beetsVault.swap was submitted: "Swap successful" is
\* logged and tx.wait() awaited; a failure is caught and logged
beets_swapOnBeets_swap(j) ==
  /\ script = "beets" /\ j \in 1..Len(cyc) /\ cyc[j].pc = "swap_submit"
  /\ \/ /\ cyc' = [cyc EXCEPT ![j].pc = "swap_wait"]
        /\ UNCHANGED inflight
     \/ beets_toDelay(j)
  /\ UNCHANGED <<script, pc, exitCode, pending, allowance, input, orch, wr, att, h,
                 netUsed>>

\* swapOnBeets, after tx.wait() of the swap: receipt or throw, it returns
beets_swapOnBeets_wait(j) ==
  /\ script = "beets" /\ j \in 1..Len(cyc) /\ cyc[j].pc = "swap_wait"
  /\ beets_toDelay(j)
  /\ UNCHANGED <<script, pc, exitCode, pending, allowance, input, orch, wr, att, h,
                 netUsed>>

\* the delay of executeSwapCycle elapsed and the invocation returns. Timed
\* mode: count++. Continuous mode: i++, then the next cycle or the end
beets_executeSwapCycle(j) ==
  /\ script = "beets" /\ j \in 1..Len(cyc) /\ cyc[j].pc = "delay"
  /\ LET done == [cyc EXCEPT ![j].pc = "done"] IN
     IF orch.timed
       THEN /\ orch' = [orch EXCEPT !.count = @ + 1]
            /\ cyc' = done
            /\ UNCHANGED <<pc, h, inflight, netUsed>>
       ELSE /\ orch' = [orch EXCEPT !.i = @ + 1]
            /\ IF Less(Num(orch.i + 1), orch.n)
                 THEN /\ h' = [h EXCEPT !.cycleLog = Append(@, orch.i + 2)]
                      /\ beets_invoke(done)
                      /\ UNCHANGED pc
                 ELSE /\ beets_allCompleted
                      /\ cyc' = done
                      /\ UNCHANGED <<inflight, netUsed>>
  /\ UNCHANGED <<script, exitCode, pending, allowance, input, wr, att>>

\* the prompt is closed, no timer is armed and no invocation is pending: the
\* process ends
beets_exit ==
  /\ script = "beets" /\ pc = "closed"
  /\ \A j \in 1..Len(cyc) : cyc[j].pc = "done"
  /\ pc' = "exit"
  /\ exitCode' = 0
  /\ UNCHANGED <<script, cyc, inflight, pending, allowance, input, orch, wr, att, h,
                 netUsed>>

beets_Next ==
  \/ beets_load \/ beets_question_cycles \/ beets_question_hours \/ beets_interval
  \/ \E j \in 1..MaxTicks :
       \/ beets_wrapSonic(j) \/ beets_wrapSonic_wait(j)
       \/ beets_swapOnBeets_approve(j) \/ beets_swapOnBeets_approved(j)
       \/ beets_swapOnBeets_swap(j) \/ beets_swapOnBeets_wait(j)
       \/ beets_executeSwapCycle(j)
  \/ beets_exit

\* ------------------------------------------------- the draws, on their own

\* one call of each draw function with Math.random() = k / RandFine: the
\* stake amount (sonic.js), the wrap and swap amounts (part_000) and the two
\* delays
rand_draw ==
  /\ script = "rand" /\ pc = "rand_draw"
  /\ \E k \in 0..(RandFine - 1) :
       /\ orch' = [orch EXCEPT !.q = k]
       /\ att' = [att EXCEPT !.stakeAmount = sonic_randomAmount(k, RandFine)]
       /\ wr' = [wr EXCEPT !.delay = sonic_getRandomDelay(k, RandFine)]
       /\ cyc' = << [pc |-> "wrap",
                     amt |-> beets_randomAmount(BEETS_MIN_WRAP, BEETS_MAX_WRAP, k, RandFine)],
                    [pc |-> "swap",
                     amt |-> beets_randomAmount(BEETS_MIN_SWAP, BEETS_MAX_SWAP, k, RandFine)],
                    [pc |-> "delay",
                     amt |-> beets_getRandomDelay(1, 3, k, RandFine)] >>
  /\ pc' = "rand_done"
  /\ UNCHANGED <<script, exitCode, inflight, pending, allowance, input, h, netUsed>>

Next == sonic_Next \/ os_Next \/ beets_Next \/ rand_draw

Spec == Init /\ [][Next]_vars

\* the three scripts, when every step that is enabled is eventually taken:
\* every remote call settles, every timer fires, every prompt is answered
InitLive == Init /\ script # "rand"
NextLive == sonic_Next \/ os_Next \/ beets_Next
LiveSpec == InitLive /\ [][NextLive]_vars /\ WF_vars(NextLive)

\* ------------------------------------------------ sonic.js: SIGINT handler

\* process.on("SIGINT"): registered at module load once the wallet exists;
\* whenever the signal is delivered the handler closes the prompt and calls
\* process.exit(0), whatever main is suspended on
sonic_SIGINT ==
  /\ script = "sonic" /\ exitCode = -1 /\ pc # "load"
  /\ pc' = "sigint_exit"
  /\ exitCode' = 0
  /\ UNCHANGED <<script, cyc, inflight, pending, allowance, input, orch, wr, att, h,
                 netUsed>>

\* the scripts in an environment that may deliver SIGINT
NextSig == Next \/ sonic_SIGINT
SpecSig == Init /\ [][NextSig]_vars

\* =================================================================== claims

\* a withRetry call of sonic.js / of os.js has been entered
SonicCall == script \in {"sonic", "wr_sonic"} /\ wr.outcome # "none"
OsCall == script \in {"os", "wr_os"} /\ wr.outcome # "none"

\* C1: sonic.js withRetry with a bound maxRetries >= 1 invokes the operation at
\* most maxRetries times; it returns the result of the first success (every
\* earlier invocation failed, none follows it); it throws only when exactly
\* maxRetries invocations were made and all of them failed; it never falls
\* out of its loop without a result.
C1_SonicRetryBound ==
  (SonicCall /\ wr.maxRetries >= 1) =>
    /\ wr.calls <= wr.maxRetries
    /\ wr.fails <= wr.calls
    /\ wr.outcome # "undefined"
    /\ wr.outcome = "returned" => (wr.result = wr.calls /\ wr.fails = wr.calls - 1)
    /\ wr.outcome = "thrown" => (wr.calls = wr.maxRetries /\ wr.fails = wr.maxRetries)
    /\ wr.fails = wr.maxRetries => (wr.outcome = "thrown" \/ pc = "wr_catch")

\* C1 witness: a bound of at least 2, every attempt but the last failed, the
\* last one succeeded and its result was returned
C1_Witness ==
  /\ script = "wr_sonic" /\ wr.maxRetries >= 2
  /\ wr.outcome = "returned" /\ wr.calls = wr.maxRetries /\ wr.fails = wr.maxRetries - 1

\* C2 as stated: os.js withRetry with retries = N >= 1 invokes fn at most N
\* times and throws after exactly N failed invocations.
C2_AtMostNCalls ==
  (OsCall /\ wr.maxRetries >= 1) =>
    /\ wr.calls <= wr.maxRetries
    /\ wr.outcome = "thrown" => wr.calls = wr.maxRetries

\* C2 amended: os.js withRetry with retries = N >= 1 invokes fn at most N + 1
\* times (the first call and N retries); it returns the first success (every
\* earlier invocation failed, none follows it); it throws only when exactly
\* N + 1 invocations were made and all of them failed.
C2_OsRetryBound ==
  (OsCall /\ wr.maxRetries >= 1) =>
    /\ wr.calls <= wr.maxRetries + 1
    /\ wr.fails <= wr.calls
    /\ wr.outcome = "returned" => (wr.result = wr.calls /\ wr.fails = wr.calls - 1)
    /\ wr.outcome = "thrown" => (wr.calls = wr.maxRetries + 1 /\ wr.fails = wr.calls)
    /\ wr.fails = wr.maxRetries + 1 => (wr.outcome = "thrown" \/ pc = "os_wr_catch")

\* C2 witness: every one of the N + 1 invocations failed and the call threw
C2_Witness ==
  /\ script = "wr_os" /\ wr.maxRetries >= 1
  /\ wr.outcome = "thrown" /\ wr.calls = wr.maxRetries + 1

\* C10 as stated: with an attempt bound <= 0 neither withRetry invokes the
\* wrapped operation, and neither returns: the only way out is an error.
C10_FailFast ==
  (wr.caller = "alone" /\ wr.maxRetries <= 0) =>
    /\ wr.calls = 0
    /\ wr.outcome \in {"running", "thrown"}

\* the most recently started cycle (sonic.js: i; os.js: <<key position, i>>)
\* has been logged as failed
LastFailed ==
  /\ Len(h.cycleLog) > 0
  /\ h.cycleLog[Len(h.cycleLog)] \in h.failedCycles

\* the cycle count is a number >= 1 and the cycle loop has been reached
SonicRuns == script = "sonic" /\ ~orch.n.nan /\ orch.n.v >= 1
OsRuns == script = "os" /\ ~orch.n.nan /\ orch.n.v >= 1 /\ Len(orch.wallets) > 0

\* C3, states: the cycles started so far are 1, 2, .. in order, once each (per
\* wallet in os.js); a failed cycle that is not the last is at its inter-cycle
\* delay or already followed by the next cycle; the process exits only with the
\* completion summary, code 0 and every cycle started.
C3_States ==
  /\ SonicRuns =>
       LET n == orch.n.v  log == h.cycleLog IN
       /\ Len(log) <= n
       /\ \A p \in 1..Len(log) : log[p] = p
       /\ h.failedCycles \cup h.okCycles \subseteq 1..Len(log)
       /\ \A c \in h.failedCycles : c < n =>
            \/ Len(log) > c
            \/ orch.i = c /\ pc \in {"after_cycle", "await_cycle_delay"}
            \/ orch.i = c + 1 /\ pc = "for_test"
       /\ exitCode # -1 =>
            /\ exitCode = 0 /\ h.summary /\ Len(log) = n
            /\ h.failedCycles \cup h.okCycles = 1..n
  /\ OsRuns =>
       LET n == orch.n.v  log == h.cycleLog  ws == orch.wallets IN
       /\ Len(log) <= n * Len(ws)
       /\ \A p \in 1..Len(log) :
            log[p] = <<ws[((p - 1) \div n) + 1], ((p - 1) % n) + 1>>
       /\ h.failedCycles \cup h.okCycles \subseteq {log[p] : p \in 1..Len(log)}
       /\ \A c \in h.failedCycles : c[2] < n =>
            \/ \E p \in 1..Len(log) : log[p] = <<c[1], c[2] + 1>>
            \/ orch.i = c[2] /\ pc \in {"os_after_iter", "os_await_interval"}
            \/ orch.i = c[2] + 1 /\ pc = "os_for_test"
       /\ exitCode # -1 =>
            /\ exitCode = 0 /\ h.summary /\ Len(log) = n * Len(ws)
            /\ h.failedCycles \cup h.okCycles = {log[p] : p \in 1..Len(log)}

\* C3, steps: a cycle after the first is entered only from the inter-cycle
\* delay, and the summary is reached only from the loop test
C3_Steps ==
  /\ (script = "sonic" /\ pc' = "for_test" /\ pc # "for_test" /\ orch'.i > 1
        /\ LessEq(Num(orch'.i), orch'.n)) => pc = "await_cycle_delay"
  /\ (script = "os" /\ pc' = "os_for_test" /\ pc # "os_for_test" /\ orch'.i > 1
        /\ LessEq(Num(orch'.i), orch'.n)) => pc = "os_await_interval"
  /\ (script = "sonic" /\ pc' = "summary" /\ pc # "summary") => pc = "for_test"

\* C3: for every cycle count N >= 1 and every pattern of failures the
\* orchestrator (sonic.js main, os.js processWallet per wallet) starts cycles
\* 1..N once each and in order; a failed cycle is logged, followed by the
\* inter-cycle delay and the next cycle, and never aborts the batch; the run
\* ends with the completion summary and exit code 0.
C3_EveryCycleAttempted == []C3_States /\ [][C3_Steps]_vars

\* C3 witness: sonic.js has exited after two cycles, the first one failed and
\* the second one completed
C3_Witness ==
  /\ script = "sonic" /\ pc = "exit" /\ exitCode = 0 /\ h.summary
  /\ h.failedCycles = {1} /\ h.okCycles = {2} /\ h.cycleLog = <<1, 2>>

\* C4 as stated: a receipt with status 0 is never reported as success and is
\* retried by the Retry Wrapper like a thrown submission failure, so that the
\* cycle is marked failed only when the Retry Wrapper gave up.
C4_RevertRetriedLikeThrow ==
  /\ att.reported => att.status = 1
  /\ (att.status = 0 /\ LastFailed) => wr.outcome = "thrown"

\* C4 amended: a receipt with status 0 is never reported as success and fails
\* the attempt. In sonic.js it is thrown inside the operation handed to
\* withRetry: it is counted and retried like any failure and the cycle is
\* marked failed only after MAX_RETRIES failed attempts. In os.js it is thrown
\* after withRetry(batchSwap) has returned: no batchSwap is submitted again and
\* the iteration is marked failed at once.
C4_RevertIsFailure ==
  /\ att.reported => att.status = 1
  /\ att.status = 0 => (att.cause = "reverted" /\ ~att.reported)
  /\ (script = "sonic" /\ att.status = 0) =>
       /\ wr.err = <<"reverted", wr.calls>>
       /\ wr.outcome \in {"running", "thrown"}
       /\ wr.outcome = "running" => pc \in {"wr_catch", "await_retry_delay", "wr_test"}
       /\ wr.outcome = "thrown" =>
            /\ wr.fails = SONIC_MAX_RETRIES /\ wr.calls = SONIC_MAX_RETRIES
            /\ pc = "wr_threw" \/ LastFailed
       /\ LastFailed => wr.outcome = "thrown"
  /\ (script = "os" /\ att.status = 0) =>
       /\ wr.op = "swap" /\ wr.outcome = "returned" /\ wr.result = wr.calls
       /\ pc = "os_catch" \/ LastFailed

\* C4 witness: in sonic.js the third deposit in a row was included with status
\* 0, withRetry threw and the cycle is marked failed
C4_Witness ==
  /\ script = "sonic" /\ wr.op = "supply" /\ att.status = 0
  /\ wr.outcome = "thrown" /\ wr.calls = SONIC_MAX_RETRIES /\ LastFailed

\* C5 as stated: at most one remote request is outstanding at any time.
C5_OneOutstanding == inflight <= 1

\* C6: os.js processes the wallets in list order; a wallet starts an iteration
\* only after the wallet before it has started its last iteration and left
\* processWallet with no request in flight; iterations of two wallets never
\* interleave.
C6_WalletsSequential ==
  script = "os" =>
    LET log == h.cycleLog IN
    /\ \A p \in 1..(Len(log) - 1) :
         \/ log[p + 1][1] = log[p][1] /\ log[p + 1][2] = log[p][2] + 1
         \/ /\ log[p + 1][1] > log[p][1]
            /\ log[p + 1][2] = 1
            /\ log[p][2] = orch.n.v
            /\ \A k \in (log[p][1] + 1)..(log[p + 1][1] - 1) : ~input.keys[k]
    /\ Len(log) > 0 =>
         /\ log[1][2] = 1
         /\ \A k \in 1..(log[1][1] - 1) : ~input.keys[k]
    /\ pc = "wallet_test" => inflight = 0
    /\ (inflight > 0 /\ Len(log) > 0) => log[Len(log)][1] <= orch.wallets[orch.w]
    /\ pc \in {"os_await_balance", "os_await_allowance", "os_wr_call", "os_await_fn",
               "os_wr_catch", "os_await_retry_delay", "os_wr_returned", "os_wr_threw",
               "os_await_approve_wait", "os_await_swap_wait", "os_catch",
               "os_after_iter", "os_await_interval"}
         => (Len(log) > 0 /\ log[Len(log)] = <<orch.wallets[orch.w], orch.i>>)

\* C6 witness: two wallets have both run two iterations and main has returned
C6_Witness ==
  /\ script = "os" /\ pc = "exit" /\ exitCode = 0
  /\ Len(orch.wallets) = 2 /\ orch.n = Num(2) /\ Len(h.cycleLog) = 4

\* C7 as stated: an insufficient wS balance is raised before the deposit /
\* batchSwap is submitted and is retried by the Retry Wrapper, so that the
\* cycle is marked failed only when the Retry Wrapper gave up.
C7_InsufficientRetried ==
  /\ att.cause = "insufficient_ws" => ~att.txSent
  /\ (att.cause = "insufficient_ws" /\ LastFailed) => wr.outcome = "thrown"

\* the orchestrator goes on after the most recent cycle failed
Proceeds ==
  /\ exitCode \in {-1, 0}
  /\ script = "sonic" =>
       pc \in {"after_cycle", "await_cycle_delay", "for_test", "summary", "exit"}
  /\ script = "os" =>
       pc \in {"os_after_iter", "os_await_interval", "os_for_test", "wallet_test",
               "os_await_decimals", "exit"}
  /\ (pc = "exit" /\ ~orch.n.nan) =>
       Len(h.cycleLog) = orch.n.v * (IF script = "os" THEN Len(orch.wallets) ELSE 1)

\* C7 amended: when the wS balance read is below the requested amount the
\* insufficient-balance error is raised and no deposit / batchSwap is submitted
\* in that attempt. In sonic.js supplyWS the failed attempt is retried by
\* withRetry and the cycle is marked failed only after MAX_RETRIES failed
\* attempts. In os.js performSwap the error is raised outside any withRetry: it
\* is not retried and the iteration is marked failed at once. In both the
\* orchestrator then proceeds to the next cycle.
C7_InsufficientBalance ==
  /\ (script = "sonic" /\ wr.op = "supply" /\ att.txSent) =>
       att.wsBalance >= att.stakeAmount
  /\ (script = "os" /\ att.txSent) => att.wsBalance >= att.amountInWei
  /\ att.cause = "insufficient_ws" => ~att.txSent
  /\ (script = "sonic" /\ att.cause = "insufficient_ws") =>
       /\ att.wsBalance < att.stakeAmount
       /\ wr.err = <<"insufficient_ws", wr.calls>>
       /\ wr.outcome \in {"running", "thrown"}
       /\ wr.outcome = "running" => pc \in {"wr_catch", "await_retry_delay", "wr_test"}
       /\ wr.outcome = "thrown" =>
            /\ wr.fails = SONIC_MAX_RETRIES /\ wr.calls = SONIC_MAX_RETRIES
            /\ pc = "wr_threw" \/ (LastFailed /\ Proceeds)
       /\ LastFailed => wr.outcome = "thrown"
  /\ (script = "os" /\ att.cause = "insufficient_ws") =>
       /\ att.wsBalance < att.amountInWei
       /\ wr = NoWr
       /\ pc = "os_catch" \/ (LastFailed /\ Proceeds)

\* C7 witness: in sonic.js the first of two cycles failed on three
\* insufficient-balance attempts and the orchestrator waits for the second
C7_Witness ==
  /\ script = "sonic" /\ att.cause = "insufficient_ws"
  /\ wr.outcome = "thrown" /\ wr.calls = SONIC_MAX_RETRIES
  /\ LastFailed /\ orch.i = 1 /\ orch.n = Num(2) /\ pc = "await_cycle_delay"

\* C8 as stated: an approve transaction is submitted only when the allowance
\* read is below the amount of the operation that follows (the stake amount in
\* sonic.js, the swap amount in os.js and part_000).
C8_ApproveOnlyWhenShort ==
  /\ (script = "sonic" /\ att.approveSent /\ att.stakeAmount > 0) =>
       att.allowanceRead < att.stakeAmount
  /\ (script = "os" /\ att.approveSent) => att.allowanceRead < att.amountInWei
  /\ script = "beets" => ~h.needlessApprove

\* C9: when no key is configured or no configured key yields a wallet, no
\* remote request is ever issued, no cycle is started and the process exits
\* with code 1.
C9_NoCredentialExit ==
  /\ (script = "os" /\ \A k \in 1..Len(input.keys) : ~input.keys[k]) =>
       /\ ~netUsed /\ inflight = 0 /\ h.cycleLog = <<>>
       /\ pc \in {"load", "await_question", "fatal", "exit"}
       /\ exitCode \in {-1, 1}
       /\ pc = "exit" <=> exitCode = 1
  /\ (script = "sonic" /\ ~input.keyValid) =>
       /\ ~netUsed /\ inflight = 0 /\ h.cycleLog = <<>>
       /\ pc \in {"load", "exit"}
       /\ pc = "exit" <=> exitCode = 1

\* C9 witness: os.js was given keys, none of them valid, and has exited with 1
C9_Witness ==
  /\ script = "os" /\ Len(input.keys) > 0 /\ orch.wallets = <<>> /\ orch.q = 4
  /\ pc = "exit" /\ exitCode = 1 /\ ~netUsed

\* C11: when a withRetry call (sonic.js or os.js) is over and every invocation
\* it made failed, it has thrown, and the error thrown is the error raised by
\* the last invocation, as it was raised: not wrapped, not an earlier
\* attempt's error, not swallowed. (A bound <= 0 in sonic.js makes no
\* invocation and raises no error: that case is C10's.)
C11_LastErrorUnchanged ==
  (wr.outcome \notin {"none", "running"} /\ wr.calls >= 1 /\ wr.fails = wr.calls) =>
    /\ wr.outcome = "thrown"
    /\ wr.thrown = wr.err
    /\ wr.thrown[2] = wr.calls
    /\ script = "sonic" => wr.thrown[1] = att.cause

\* C11 witness: sonic.js supplyWS failed MAX_RETRIES times and withRetry threw
\* the error of the third attempt
C11_Witness ==
  /\ script = "sonic" /\ wr.op = "supply" /\ wr.outcome = "thrown"
  /\ wr.calls = SONIC_MAX_RETRIES /\ wr.thrown = <<att.cause, SONIC_MAX_RETRIES>>

\* a non-blank answer to a numeric prompt of the running script is malformed
MalformedAnswer ==
  \/ script \in {"sonic", "beets"} /\ input.answer.txt = "junk"
  \/ script = "beets" /\ input.hours.txt = "junk"
  \/ script = "os" /\ (input.iterations.txt = "junk" \/ input.amount.txt = "junk")

\* C12 as stated: when a non-blank answer to a numeric prompt is malformed,
\* no remote request is ever issued, no cycle is ever started, and the process
\* never ends with exit code 0.
C12_MalformedAborts ==
  MalformedAnswer => (~netUsed /\ h.cycleLog = <<>> /\ exitCode # 0)

\* C13, sonic.js: a deposit is submitted with a positive amount that the wS
\* balance read in the same attempt covers
C13_Sonic ==
  (script = "sonic" /\ wr.op = "supply" /\ att.txSent) =>
    (att.stakeAmount > 0 /\ att.stakeAmount <= att.wsBalance)

\* C13, os.js: batchSwap is submitted with a positive amount that the wS
\* balance read by performSwap covers
C13_Os ==
  (script = "os" /\ wr.op = "swap" /\ wr.calls >= 1) =>
    (att.amountInWei > 0 /\ att.amountInWei <= att.wsBalance)

\* C13, part_000: a wrap (swap) is submitted with a positive amount that the
\* native (wS) balance read by the caller covers; att holds the balances the
\* caller has read, and part_000 reads none
C13_Beets ==
  script = "beets" =>
    \A j \in 1..Len(cyc) :
      /\ cyc[j].pc \in {"wrap_submit", "wrap_wait"} =>
           (cyc[j].amt > 0 /\ cyc[j].amt <= att.ethBalance)
      /\ cyc[j].pc \in {"swap_submit", "swap_wait"} =>
           (cyc[j].amt > 0 /\ cyc[j].amt <= att.wsBalance)

\* C13 as stated: every state-changing request submitted by any script
\* (deposit in sonic.js, batchSwap in os.js, wrap and swap in part_000)
\* carries a strictly positive amount that does not exceed the corresponding
\* balance as read by the caller before the request was built.
C13_AmountWithinBalance == C13_Sonic /\ C13_Os /\ C13_Beets

\* C14 as stated: when SIGINT arrives while a remote call or a confirmation
\* wait is in flight the process does not exit before that call has finished
\* or failed, so at the exit caused by the signal nothing is in flight.
C14_SignalWaitsForCall == pc = "sigint_exit" => inflight = 0

\* C15 as stated: in sonic.js supplyWS a failed reserve-active precondition is
\* a hard stop for the cycle: after the invocation that found the reserve
\* inactive, supplyWS is neither retried nor is a stake amount drawn.
C15_ReserveHardStop ==
  (script = "sonic" /\ wr.op = "supply" /\ wr.err # <<>> /\ wr.err[1] = "reserve_inactive") =>
    (wr.calls = wr.err[2] /\ pc # "await_retry_delay" /\ att.stakeAmount = 0)

\* C15 amended: in sonic.js supplyWS a failed reserve-active precondition
\* ends the attempt at once: no balance is read, no stake amount is drawn and
\* no deposit is submitted in that attempt. The failure is retried by
\* withRetry like any other: the cycle is marked failed for it only after
\* MAX_RETRIES invocations, and withRetry throws it only at the last one.
C15_ReserveStopsAttempt ==
  /\ (script = "sonic" /\ att.cause = "reserve_inactive") =>
       /\ att.stakeAmount = 0 /\ ~att.txSent
       /\ att.wsBalance = 0 /\ att.ethBalance = 0
       /\ LastFailed => (wr.outcome = "thrown" /\ wr.calls = SONIC_MAX_RETRIES)
  /\ (script = "sonic" /\ wr.outcome = "thrown" /\ wr.thrown[1] = "reserve_inactive") =>
       (wr.calls = SONIC_MAX_RETRIES /\ wr.fails = SONIC_MAX_RETRIES)

\* C15 witness: the first invocation of supplyWS found the reserve inactive,
\* a later one drew a stake amount and its deposit was confirmed
C15_Witness ==
  /\ script = "sonic" /\ wr.op = "supply" /\ wr.outcome = "returned"
  /\ wr.err # <<>> /\ wr.err[1] = "reserve_inactive"
  /\ wr.calls > wr.err[2] /\ att.stakeAmount > 0

\* C16, the draw functions: for every value k / RandFine of the random source,
\* getRandomDelay is within [minDelay, maxDelay] (60000..180000 ms) and
\* getRandomAmount within [min, max], after rounding to 4 decimals, for the
\* stake interval, the wrap interval, the swap interval and small intervals
\* down to min = max
C16_Range ==
  (script = "rand" /\ pc = "rand_done") =>
    /\ att.stakeAmount >= MIN_STAKE_AMOUNT /\ att.stakeAmount <= MAX_STAKE_AMOUNT
    /\ wr.delay >= 60000 /\ wr.delay <= 180000
    /\ cyc[1].amt >= BEETS_MIN_WRAP /\ cyc[1].amt <= BEETS_MAX_WRAP
    /\ cyc[2].amt >= BEETS_MIN_SWAP /\ cyc[2].amt <= BEETS_MAX_SWAP
    /\ cyc[3].amt >= 60000 /\ cyc[3].amt <= 180000
    /\ \A lo \in 0..2 : \A hi \in lo..3 :
         beets_randomAmount(lo, hi, orch.q, RandFine) \in lo..hi

\* C16, the draws of the scripts: an attempt of supplyWS holds no stake
\* amount until it draws its own after checkBalances (none is carried over
\* from an earlier attempt or cycle), and every amount an operation holds is
\* within the interval of its draw
C16_Fresh ==
  /\ (script = "sonic" /\ wr.op = "supply"
        /\ pc \in {"await_allowance", "await_approve", "await_approve_wait",
                    "await_reserve", "await_balances"}) => att.stakeAmount = 0
  /\ (script = "sonic" /\ att.stakeAmount # 0) =>
       (att.stakeAmount >= MIN_STAKE_AMOUNT /\ att.stakeAmount <= MAX_STAKE_AMOUNT)
  /\ script = "beets" =>
       \A j \in 1..Len(cyc) :
         /\ cyc[j].pc \in {"wrap_submit", "wrap_wait"} =>
              (cyc[j].amt >= BEETS_MIN_WRAP /\ cyc[j].amt <= BEETS_MAX_WRAP)
         /\ cyc[j].pc \in {"approve_submit", "approve_wait", "swap_submit", "swap_wait"} =>
              (cyc[j].amt >= BEETS_MIN_SWAP /\ cyc[j].amt <= BEETS_MAX_SWAP)

\* C16: every delay drawn lies in [minDelay, maxDelay] and every amount drawn
\* in [min, max], both ends included, and every operation instance (every
\* cycle, every retry attempt of supplyWS) makes its own draw.
C16_DrawsInRange == C16_Range /\ C16_Fresh

\* C16 witness: a value of the random source close to 1 for which the stake
\* amount is rounded up to MAX_STAKE_AMOUNT and the delay is maxDelay
C16_Witness ==
  /\ script = "rand" /\ pc = "rand_done"
  /\ att.stakeAmount = MAX_STAKE_AMOUNT /\ wr.delay = maxDelay

\* C17, sonic.js and os.js: the success line of a deposit, withdraw or
\* batchSwap has been printed only for a receipt with status 1
C17_ReportedConfirmed ==
  (script \in {"sonic", "os"} /\ att.reported) => att.status = 1

\* C17, part_000: no invocation waits for the confirmation of a wrap or swap
\* whose success line was already printed (wrapSonic and swapOnBeets print it
\* on their way to tx.wait())
C17_BeetsNotReportedEarly ==
  script = "beets" => \A j \in 1..Len(cyc) : cyc[j].pc \notin {"wrap_wait", "swap_wait"}

\* C17 as stated: in every script a step is reported as successful only after
\* the confirmation wait of its transaction returned with a non-reverted
\* status, never for a transaction still pending or included as reverted.
C17_SuccessAfterConfirmation == C17_ReportedConfirmed /\ C17_BeetsNotReportedEarly

\* C18: in sonic.js a deposit is submitted only in an attempt that, before
\* the submission, found the reserve active, read a wS balance >= the stake
\* amount it drew and read a native balance >= 0.01; a withdraw is submitted
\* only in an attempt that read an aSonwS balance > 0.
C18_SubmitPreconditions ==
  /\ (script = "sonic" /\ wr.op = "supply" /\ att.txSent) =>
       /\ att.reserveData > 0
       /\ att.stakeAmount > 0 /\ att.wsBalance >= att.stakeAmount
       /\ att.ethBalance >= minEthRequired
  /\ (script = "sonic" /\ wr.op = "withdraw" /\ att.txSent) => att.aBalance > 0

\* C18 witness: a deposit was submitted in the second attempt of supplyWS,
\* with the native balance exactly at the 0.01 minimum
C18_Witness ==
  /\ script = "sonic" /\ wr.op = "supply" /\ att.txSent /\ pc = "await_wait"
  /\ wr.calls = 2 /\ att.ethBalance = minEthRequired /\ att.reserveData > 0

\* C19, states: the inter-step delay runs only after supplyWS returned, and
\* once supplyWS has thrown the cycle goes to its catch clause and on to the
\* next cycle: no inter-step delay, no withdrawWS
C19_States ==
  /\ (script = "sonic" /\ pc = "await_step_delay") =>
       (wr.op = "supply" /\ wr.outcome = "returned")
  /\ (script = "sonic" /\ wr.op = "supply" /\ wr.outcome = "thrown") =>
       pc \in {"wr_threw", "main_catch", "after_cycle", "await_cycle_delay", "for_test",
               "summary", "exit"}
  /\ (script = "sonic" /\ wr.op \in {"supply", "withdraw"}) =>
       /\ Len(h.cycleLog) > 0
       /\ (pc \notin {"for_test", "summary", "exit"} =>
            h.cycleLog[Len(h.cycleLog)] = orch.i)

\* C19, steps: withdrawWS is started only when the inter-step delay of the
\* same cycle elapses, that delay only when supplyWS returned, and supplyWS
\* only at the head of a cycle
C19_Steps ==
  /\ (script = "sonic" /\ wr'.op = "withdraw" /\ wr.op # "withdraw") =>
       /\ pc = "await_step_delay" /\ wr.op = "supply" /\ wr.outcome = "returned"
       /\ orch' = orch /\ h'.cycleLog = h.cycleLog
  /\ (script = "sonic" /\ pc' = "await_step_delay" /\ pc # "await_step_delay") =>
       (pc = "wr_returned" /\ wr.op = "supply" /\ wr.outcome = "returned")
  /\ (script = "sonic" /\ wr'.op = "supply" /\ wr'.calls = 0 /\ wr # wr') =>
       (pc = "for_test" /\ h'.cycleLog = Append(h.cycleLog, orch.i))

\* C19: every sonic.js cycle runs supply -> inter-step delay -> withdraw in
\* that order: withdrawWS starts only after supplyWS of the same cycle
\* returned and the delay elapsed; when supplyWS throws (retries exhausted)
\* the cycle has neither the delay nor withdrawWS.
C19_SupplyDelayWithdraw == []C19_States /\ [][C19_Steps]_vars

\* C19 witness: in the second cycle withdrawWS is under way, after a first
\* cycle whose supplyWS failed
C19_Witness ==
  /\ script = "sonic" /\ wr.op = "withdraw" /\ wr.calls >= 1
  /\ orch.i = 2 /\ h.failedCycles = {1} /\ h.okCycles = {}

\* the cycle count the orchestrator works with is a number (sonic.js turns an
\* unparsable answer into 1; os.js and part_000 keep NaN)
CountIsFinite ==
  /\ script = "sonic" => ~OrDefault(parseInt(input.answer), Num(1)).nan
  /\ script = "os" => ~MathMax(os_parseOr(input.iterations, 5), Num(1)).nan
  /\ script = "beets" => ~beets_parseOr(input.answer, 1).nan

\* the terminal state: sonic.js has called process.exit, os.js main returned
\* (or exited on a fatal error), part_000 closed the prompt interface (or died
\* at load)
Terminated == pc \in {"exit", "closed"}

\* C20: when every remote call and every timer eventually returns, each
\* orchestrator started with a finite cycle count and wallet list eventually
\* reaches its terminal state; no run retries or waits forever.
C20_Terminates ==
  (script \in {"sonic", "os", "beets"} /\ CountIsFinite) ~> Terminated

\* C20 witness: part_000 in timed mode closed the prompt interface after the
\* timer started two cycles
C20_Witness ==
  /\ script = "beets" /\ orch.timed /\ pc = "closed" /\ Len(cyc) = 2
  /\ CountIsFinite

\* part_000 runs in timed mode with a cycle count of at least 1
TimedRun ==
  script = "beets" /\ orch.timed /\ ~orch.n.nan /\ orch.n.v >= 1

\* C21: in part_000's timed mode, for every cyclesCount >= 1 and whatever the
\* ratio of a cycle's duration to the timer interval, exactly cyclesCount
\* invocations of executeSwapCycle are started over the whole run: never more
\* while it runs, and exactly that many once the prompt interface is closed.
C21_ExactlyCountStarted ==
  TimedRun =>
    /\ Len(cyc) <= orch.n.v
    /\ pc \in {"closed", "exit"} => Len(cyc) = orch.n.v

\* some invocation of executeSwapCycle has not returned yet
CycleInFlight == \E j \in 1..Len(cyc) : cyc[j].pc # "done"

\* "All cycles completed!" was printed and the prompt interface closed
BeetsCompleted == script = "beets" /\ h.summary

\* at the completion message no invocation is in flight
C22_IdleAtCompletion == BeetsCompleted => ~CycleInFlight

\* after the completion message no invocation is started
C22_NoneStartedAfter == BeetsCompleted => Len(cyc') = Len(cyc)

\* C22: in part_000, timed and continuous mode alike, "All cycles completed!"
\* is emitted and the prompt interface closed only when no executeSwapCycle
\* invocation is still in flight, and no cycle is started afterwards.
C22_CompletedMeansIdle ==
  []C22_IdleAtCompletion /\ [][C22_NoneStartedAfter]_vars

\* C23: in os.js performSwap a batchSwap is submitted only if, in the same
\* iteration, the allowance read was already at least the swap amount or an
\* approve transaction for that amount was confirmed with a non-reverted
\* status; a reverted or unconfirmed approval never leads to a swap submission.
C23_SwapNeedsAllowance ==
  (script = "os" /\ att.txSent) =>
    \/ att.allowanceRead >= att.amountInWei
    \/ att.approveSent /\ att.approveStatus = 1

====
